---------------------------- MODULE Spec2Model ----------------------------
(***************************************************************************)
(* Model of the password generator of src/password.py (the same code is    *)
(* repeated in src/password_gui.py) and of its two front ends, the text    *)
(* menu main_loop and the tkinter handler on_generate_click.               *)
(*                                                                         *)
(* A Python str is modelled as a sequence of one-character strings, so     *)
(* that lower(), strip(), int() and indexing can be computed.  A draw of   *)
(* the secure random source is a natural number r; a request for a value   *)
(* below n yields r % n.  The modulus only names the outcome that the draw *)
(* stands for: every outcome in 0..n-1 is the image of some r, and nothing *)
(* is said about its distribution.                                         *)
(***************************************************************************)
EXTENDS Integers, Sequences, FiniteSets, TLC

(***************************************************************************)
(* Bounds of the model.                                                    *)
(***************************************************************************)
\* generate_password is called with lengths in -MaxNegLength..MaxLength
MaxLength == 4
MaxNegLength == 1
\* a draw below n yields 0, SampleStride, 2*SampleStride, ... or n-1
SampleStride == 26
\* the front ends' calls draw the streams raw[t] = a + b * t,
\* a in 0..MaxStreamOffset, b in 0..MaxStreamStep
MaxStreamOffset == 1
MaxStreamStep == 1

(***************************************************************************)
(* Constants of the program.                                               *)
(***************************************************************************)
\* generate_password(16, "strong") of the menu's choice 2
QuickLength == 16
\* entry_length.insert(0, "12")
DefaultLengthEntry == << "1", "2" >>
\* a call of length n makes fewer than 2 * n + 3 draws; no length entered in
\* the front ends exceeds QuickLength
StreamLength == 2 * QuickLength + 2

(***************************************************************************)
(* The alphabets of Python's string module.                                *)
(***************************************************************************)
ascii_lowercase ==
    << "a", "b", "c", "d", "e", "f", "g", "h", "i", "j", "k", "l", "m",
       "n", "o", "p", "q", "r", "s", "t", "u", "v", "w", "x", "y", "z" >>

ascii_uppercase ==
    << "A", "B", "C", "D", "E", "F", "G", "H", "I", "J", "K", "L", "M",
       "N", "O", "P", "Q", "R", "S", "T", "U", "V", "W", "X", "Y", "Z" >>

ascii_letters == ascii_lowercase \o ascii_uppercase

digits == << "0", "1", "2", "3", "4", "5", "6", "7", "8", "9" >>

\* the grave accent (U+0060) cannot be written in a TLA+ string: "GRAVE" is it
punctuation ==
    << "!", "\"", "#", "$", "%", "&", "'", "(", ")", "*", "+", ",", "-",
       ".", "/", ":", ";", "<", "=", ">", "?", "@", "[", "\\", "]", "^",
       "_", "GRAVE", "{", "|", "}", "~" >>

Range(s) == { s[k] : k \in 1..Len(s) }

Letters == Range(ascii_letters)
Digits == Range(digits)
Symbols == Range(punctuation)

(***************************************************************************)
(* str.lower(), on ASCII text: an upper-case letter becomes the lower-case *)
(* letter at the same place of the alphabet, anything else is kept.        *)
(***************************************************************************)
UpperCase == Range(ascii_uppercase)

LowerChar(c) ==
    IF c \in UpperCase
    THEN ascii_lowercase[CHOOSE k \in 1..Len(ascii_uppercase) : ascii_uppercase[k] = c]
    ELSE c

\* (variant: the mode is compared as typed)
lower_missing(s) == s

lower(s) == [k \in 1..Len(s) |-> LowerChar(s[k])]

\* str.strip(): leading and trailing blanks removed
RECURSIVE lstrip(_)
lstrip(s) == IF s # << >> /\ Head(s) = " " THEN lstrip(Tail(s)) ELSE s

RECURSIVE rstrip(_)
rstrip(s) ==
    IF s # << >> /\ s[Len(s)] = " " THEN rstrip(SubSeq(s, 1, Len(s) - 1)) ELSE s

strip(s) == rstrip(lstrip(s))

\* the digits of an int() literal: digits, with single "_" between digits
IsDigitString(b) ==
    /\ b # << >>
    /\ \A k \in 1..Len(b) : b[k] \in Range(digits) \cup { "_" }
    /\ b[1] # "_"
    /\ b[Len(b)] # "_"
    /\ \A k \in 1..(Len(b) - 1) : ~ (b[k] = "_" /\ b[k + 1] = "_")

DigitValue(c) == (CHOOSE k \in 1..Len(digits) : digits[k] = c) - 1

RECURSIVE DecimalValue(_)
DecimalValue(b) ==
    IF b = << >> THEN 0
    ELSE LET front == SubSeq(b, 1, Len(b) - 1)
             last == b[Len(b)]
         IN  IF last = "_" THEN DecimalValue(front)
             ELSE 10 * DecimalValue(front) + DigitValue(last)

\* int(s) for a str s: blanks around, an optional sign, decimal digits;
\* ok is FALSE where int raises ValueError
int(s) ==
    LET t == strip(s)
        signed == t # << >> /\ t[1] \in { "+", "-" }
        body == IF signed THEN Tail(t) ELSE t
    IN  IF IsDigitString(body)
        THEN [ok |-> TRUE,
              value |-> IF t[1] = "-" THEN 0 - DecimalValue(body)
                        ELSE DecimalValue(body)]
        ELSE [ok |-> FALSE, value |-> 0]

(***************************************************************************)
(* The mode strings the code compares with.                                *)
(***************************************************************************)
STRONG == << "s", "t", "r", "o", "n", "g" >>
MIXED == << "m", "i", "x", "e", "d" >>
LETTERS == << "l", "e", "t", "t", "e", "r", "s" >>
DIGITS == << "d", "i", "g", "i", "t", "s" >>

InvalidLength == "Password length must be a positive number."
EmptyCharacterPool == "Character pool is empty. Select at least one type."

\* Python's None where a str is expected: no str has the character "None"
None == << "None" >>

\* no exception has been raised
NoError == ""

(***************************************************************************)
(* The random source.                                                      *)
(***************************************************************************)
\* secrets.randbelow(n) / SystemRandom()._randbelow(n) on the draw r
randbelow(n, r) == r % n

\* secrets.choice(seq) on the draw r
secrets_choice(seq, r) == seq[randbelow(Len(seq), r) + 1]

\* the outcomes of a draw below n that the model explores
Sample(n) == { k \in 0..(n - 1) : k % SampleStride = 0 } \cup { n - 1 }

(***************************************************************************)
(* generate_password, the pieces of its body.                              *)
(***************************************************************************)
\* (variant: the check written as length < 0)
invalid_length_strict(len) == len < 0

\* if length <= 0: raise ValueError("Password length must be a positive number.")
invalid_length(len) == len <= 0

\* (variant: the final else leaves the flags False)
use_flags_no_default(m) ==
    IF m \in { STRONG, MIXED }
    THEN [letters |-> TRUE, digits |-> TRUE, symbols |-> TRUE]
    ELSE IF m = LETTERS
    THEN [letters |-> TRUE, digits |-> FALSE, symbols |-> FALSE]
    ELSE IF m = DIGITS
    THEN [letters |-> FALSE, digits |-> TRUE, symbols |-> FALSE]
    ELSE [letters |-> FALSE, digits |-> FALSE, symbols |-> FALSE]

\* the three use_* flags after the if / elif chain on the lower-cased mode
use_flags(m) ==
    IF m \in { STRONG, MIXED }
    THEN [letters |-> TRUE, digits |-> TRUE, symbols |-> TRUE]
    ELSE IF m = LETTERS
    THEN [letters |-> TRUE, digits |-> FALSE, symbols |-> FALSE]
    ELSE IF m = DIGITS
    THEN [letters |-> FALSE, digits |-> TRUE, symbols |-> FALSE]
    ELSE [letters |-> TRUE, digits |-> TRUE, symbols |-> TRUE]

\* (variant: the pool ignores the flags)
build_pool_all(u) == ascii_letters \o digits \o punctuation

\* pool = "" and the three conditional +=
build_pool(u) ==
    (IF u.letters THEN ascii_letters ELSE << >>)
        \o (IF u.digits THEN digits ELSE << >>)
        \o (IF u.symbols THEN punctuation ELSE << >>)

\* (variant: the digit is never appended)
append_choice_no_digit(chars, use, alphabet, r) ==
    IF use /\ alphabet # digits THEN Append(chars, secrets_choice(alphabet, r))
    ELSE chars

\* one conditional chars.append(secrets.choice(alphabet)) of required_characters
append_choice(chars, use, alphabet, r) ==
    IF use THEN Append(chars, secrets_choice(alphabet, r)) ELSE chars

\* required_characters, drawing from raw[t], raw[t+1], ...
required_characters(u, raw, t) ==
    LET a == append_choice(<< >>, u.letters, ascii_letters, raw[t])
        b == append_choice(a, u.digits, digits, raw[t + Len(a)])
        c == append_choice(b, u.symbols, punctuation, raw[t + Len(b)])
    IN  c

\* (variant: no truncation)
truncate_never(required, len) == required

\* (variant: required[-length:], the last entries kept)
truncate_last(required, len) ==
    IF Len(required) > len
    THEN SubSeq(required, Len(required) - len + 1, Len(required))
    ELSE required

\* if len(required) > length: required = required[:length]
truncate(required, len) ==
    IF Len(required) > len THEN SubSeq(required, 1, len) ELSE required

\* one pass of "for _ in range(remaining): password_parts.append(choice(pool))"
fill_step(parts, pl, r) == Append(parts, secrets_choice(pl, r))

\* x[i], x[j] = x[j], x[i], with Python's indices from 0
swap(x, i, j) == [x EXCEPT ![i + 1] = x[j + 1], ![j + 1] = x[i + 1]]

\* (variant: j = randbelow(i), so that j is never i)
shuffle_step_below(x, i, r) == swap(x, i, IF i = 0 THEN 0 ELSE randbelow(i, r))

\* one pass of SystemRandom().shuffle: j = randbelow(i + 1); swap x[i], x[j]
shuffle_step(x, i, r) == swap(x, i, randbelow(i + 1, r))

\* the index the shuffle starts at: reversed(range(1, len(x)))
shuffle_start(x) == Len(x) - 1

\* "".join(password_parts): each part is one character, so the characters
\* of the joined str are the parts, in order
join(parts) == parts

\* the whole filling loop: n passes, drawing from raw[t], raw[t+1], ...
RECURSIVE fill(_, _, _, _, _)
fill(parts, pl, n, raw, t) ==
    IF n <= 0 THEN parts
    ELSE fill(fill_step(parts, pl, raw[t]), pl, n - 1, raw, t + 1)

\* the whole shuffle from index k down to 1, drawing from raw[t], raw[t+1], ...
RECURSIVE shuffle(_, _, _, _)
shuffle(x, k, raw, t) ==
    IF k < 1 THEN x
    ELSE shuffle(shuffle_step(x, k, raw[t]), k - 1, raw, t + 1)

\* what a call hands back to its caller
Raised(msg) == [error |-> msg, value |-> None]
Returned(str) == [error |-> NoError, value |-> str]

\* generate_password(length, mode) as a function of the draws raw[1], raw[2], ...
\* of the random source
generate_password(len, m, raw) ==
    IF invalid_length(len) THEN Raised(InvalidLength)
    ELSE LET u == use_flags(lower(m))
             pl == build_pool(u)
         IN  IF pl = << >> THEN Raised(EmptyCharacterPool)
             ELSE LET ch == required_characters(u, raw, 1)
                      req == truncate(ch, len)
                      rem == len - Len(req)
                      parts == fill(req, pl, rem, raw, Len(ch) + 1)
                  IN  Returned(join(shuffle(parts, shuffle_start(parts), raw,
                                            Len(ch) + rem + 1)))

(***************************************************************************)
(* State of one call of generate_password, statement by statement.         *)
(***************************************************************************)
VARIABLES
    pc,              \* position in generate_password
    length,          \* the length argument
    mode,            \* the mode argument as passed
    mode_lower,      \* mode after mode = mode.lower()
    use,             \* use_letters, use_digits, use_symbols
    pool,
    chars,           \* the list built by required_characters
    required,
    remaining,
    password_parts,
    i,               \* the shuffle's loop index
    result,          \* the returned str, None before the return
    error,           \* the message of the raised ValueError, NoError if none
    draws            \* the outcomes of the random source so far, in order

VARIABLES
    program,         \* which script runs: "generator" (a bare call), "menu", "gui"
    QR_AVAILABLE,
    CLIP_AVAILABLE,
    menu_pc,         \* main_loop: "loop" at the prompt, "exited" after break
    last_password,
    choice,          \* the choice read by the last pass of the loop, stripped
    entered,         \* what was typed in the last pass, as typed
    output,          \* the message the last pass printed
    called,          \* the collaborator the last pass called, and its argument
    returned,        \* the value of the last generate_password call that returned
    entry_length,    \* the form's fields
    var_mode,
    entry_result,
    status_label,
    gui_event        \* the form's last event

frontVars == << program, QR_AVAILABLE, CLIP_AVAILABLE, menu_pc, last_password,
                choice, entered, output, called, returned, entry_length,
                var_mode, entry_result, status_label, gui_event >>

genVars == << pc, length, mode, mode_lower, use, pool, chars, required,
              remaining, password_parts, i, result, error, draws >>

vars == << genVars, frontVars >>

Lengths == (0 - MaxNegLength)..MaxLength

Modes ==
    { STRONG, MIXED, LETTERS, DIGITS,
      << "b", "a", "n", "a", "n", "a" >>,
      << >>,
      << "L", "e", "T", "T", "e", "r", "s" >>,
      << "D", "I", "G", "I", "T", "S" >>,
      << "M", "i", "x", "e", "d" >> }

NoFlags == [letters |-> FALSE, digits |-> FALSE, symbols |-> FALSE]

GenInit ==
    /\ pc = "idle"
    /\ length = 0
    /\ mode = << >>
    /\ mode_lower = << >>
    /\ use = NoFlags
    /\ pool = << >>
    /\ chars = << >>
    /\ required = << >>
    /\ remaining = 0
    /\ password_parts = << >>
    /\ i = 0
    /\ result = None
    /\ error = NoError
    /\ draws = << >>


\* a bare call of generate_password: the front ends do not run
Init ==
    /\ GenInit
    /\ program = "generator"
    /\ QR_AVAILABLE = FALSE
    /\ CLIP_AVAILABLE = FALSE
    /\ menu_pc = "loop"
    /\ last_password = None
    /\ choice = None
    /\ entered = [choice |-> None, length |-> None]
    /\ output = ""
    /\ called = [op |-> "none", text |-> None, filepath |-> None]
    /\ returned = None
    /\ entry_length = DefaultLengthEntry
    /\ var_mode = STRONG
    /\ entry_result = << >>
    /\ status_label = "Ready"
    /\ gui_event = "start"

\* the call, and "if length <= 0: raise ValueError(...)"
Call(len, m) ==
    /\ pc = "idle"
    /\ length' = len
    /\ mode' = m
    /\ IF invalid_length(len)
       THEN /\ pc' = "raised"
            /\ error' = InvalidLength
       ELSE /\ pc' = "resolve"
            /\ error' = NoError
    /\ UNCHANGED << frontVars, mode_lower, use, pool, chars, required, remaining,
                    password_parts, i, result, draws >>

\* mode = mode.lower() and the if / elif chain
ResolveMode ==
    /\ pc = "resolve"
    /\ mode_lower' = lower(mode)
    /\ use' = use_flags(mode_lower')
    /\ pc' = "pool"
    /\ UNCHANGED << frontVars, length, mode, pool, chars, required, remaining,
                    password_parts, i, result, error, draws >>

\* the pool, and "if not pool: raise ValueError(...)"
BuildPool ==
    /\ pc = "pool"
    /\ pool' = build_pool(use)
    /\ IF pool' = << >>
       THEN /\ pc' = "raised"
            /\ error' = EmptyCharacterPool
       ELSE /\ pc' = "req_letters"
            /\ error' = NoError
    /\ UNCHANGED << frontVars, length, mode, mode_lower, use, chars, required, remaining,
                    password_parts, i, result, draws >>

\* one "if use_x: chars.append(secrets.choice(alphabet))"
RequiredStep(at, flag, alphabet, next) ==
    /\ pc = at
    /\ IF flag
       THEN \E r \in Sample(Len(alphabet)) :
                /\ chars' = append_choice(chars, flag, alphabet, r)
                /\ draws' = Append(draws, r)
       ELSE UNCHANGED << chars, draws >>
    /\ pc' = next
    /\ UNCHANGED << frontVars, length, mode, mode_lower, use, pool, required, remaining,
                    password_parts, i, result, error >>

RequiredLetters == RequiredStep("req_letters", use.letters, ascii_letters, "req_digits")
RequiredDigits == RequiredStep("req_digits", use.digits, digits, "req_symbols")
RequiredSymbols == RequiredStep("req_symbols", use.symbols, punctuation, "truncate")

\* required = required_characters(...); the truncation; remaining; password_parts
Truncate ==
    /\ pc = "truncate"
    /\ required' = truncate(chars, length)
    /\ remaining' = length - Len(required')
    /\ password_parts' = required'
    /\ pc' = "fill"
    /\ UNCHANGED << frontVars, length, mode, mode_lower, use, pool, chars, i, result,
                    error, draws >>

\* one pass of the filling loop
Fill ==
    /\ pc = "fill"
    /\ Len(password_parts) < Len(required) + remaining
    /\ \E r \in Sample(Len(pool)) :
           /\ password_parts' = fill_step(password_parts, pool, r)
           /\ draws' = Append(draws, r)
    /\ UNCHANGED << frontVars, pc, length, mode, mode_lower, use, pool, chars, required,
                    remaining, i, result, error >>

\* the filling loop ends and shuffle() starts
FillDone ==
    /\ pc = "fill"
    /\ ~ (Len(password_parts) < Len(required) + remaining)
    /\ i' = shuffle_start(password_parts)
    /\ pc' = "shuffle"
    /\ UNCHANGED << frontVars, length, mode, mode_lower, use, pool, chars, required,
                    remaining, password_parts, result, error, draws >>

\* one pass of the shuffle's loop
Shuffle ==
    /\ pc = "shuffle"
    /\ i >= 1
    /\ \E r \in 0..i :
           /\ password_parts' = shuffle_step(password_parts, i, r)
           /\ draws' = Append(draws, r)
    /\ i' = i - 1
    /\ UNCHANGED << frontVars, pc, length, mode, mode_lower, use, pool, chars, required,
                    remaining, result, error >>

\* return "".join(password_parts)
Return ==
    /\ pc = "shuffle"
    /\ i < 1
    /\ result' = join(password_parts)
    /\ pc' = "done"
    /\ UNCHANGED << frontVars, length, mode, mode_lower, use, pool, chars, required,
                    remaining, password_parts, i, error, draws >>

\* the call is over (returned or raised); nothing is kept for the next one
Forget ==
    /\ pc \in { "done", "raised" }
    /\ pc' = "idle"
    /\ length' = 0
    /\ mode' = << >>
    /\ mode_lower' = << >>
    /\ use' = NoFlags
    /\ pool' = << >>
    /\ chars' = << >>
    /\ required' = << >>
    /\ remaining' = 0
    /\ password_parts' = << >>
    /\ i' = 0
    /\ result' = None
    /\ error' = NoError
    /\ draws' = << >>
    /\ UNCHANGED frontVars

Next ==
    \/ \E len \in Lengths, m \in Modes : Call(len, m)
    \/ ResolveMode
    \/ BuildPool
    \/ RequiredLetters
    \/ RequiredDigits
    \/ RequiredSymbols
    \/ Truncate
    \/ Fill
    \/ FillDone
    \/ Shuffle
    \/ Return
    \/ Forget

Spec == Init /\ [][Next]_vars


(***************************************************************************)
(* The front ends: main_loop of src/password.py and the form of            *)
(* src/password_gui.py.  Each pass of the menu loop, and each event of the *)
(* form, is one step; the generate_password call inside it takes its draws *)
(* from a stream raw.                                                      *)
(***************************************************************************)
\* the streams of draws the front ends' calls explore: raw[t] = a + b * t
Streams ==
    { [t \in 1..StreamLength |-> a + b * t] :
          a \in 0..MaxStreamOffset, b \in 0..MaxStreamStep }

\* what the user types at the menu's prompts and into the form's length field
ChoiceInputs ==
    { << "1" >>, << "2" >>, << "3" >>, << " ", "3", " " >>, << "4" >>,
      << "5" >>, << "6" >>, << >> }

LengthInputs ==
    { << "2" >>, << " ", "1", "2" >>, << "0" >>, << "-", "3" >>,
      << "a", "b", "c" >>, << >> }

ModeInputs == { << >>, << " ", "D", "i", "g", "i", "t", "s" >> }

GuiLengthInputs == { DefaultLengthEntry, << "2", " " >>, << "0" >>, << "x" >> }

FileInputs == { << >>, << "q", ".", "p", "n", "g" >> }

\* modes = ["strong", "letters", "digits", "mixed"] of the form's OptionMenu
GuiModes == { STRONG, LETTERS, DIGITS, MIXED }

DefaultQrFile == << "q", "r", "c", "o", "d", "e", ".", "p", "n", "g" >>

NoCall == [op |-> "none", text |-> None, filepath |-> None]
NothingEntered == [choice |-> None, length |-> None]

\* (variant: only the empty str is refused)
falsy_empty_only(s) == s = << >>

\* Python's "not s" for s a str or None
falsy(s) == s = None \/ s = << >>

InitFront ==
    /\ GenInit
    /\ program \in { "menu", "gui" }
    /\ QR_AVAILABLE \in BOOLEAN
    /\ CLIP_AVAILABLE \in BOOLEAN
    /\ menu_pc = "loop"
    /\ last_password = None
    /\ choice = None
    /\ entered = NothingEntered
    /\ output = ""
    /\ called = NoCall
    /\ returned = None
    /\ entry_length = DefaultLengthEntry
    /\ var_mode = STRONG
    /\ entry_result = << >>
    /\ status_label = "Ready"
    /\ gui_event = "start"

guiVars == << entry_length, var_mode, entry_result, status_label, gui_event >>
menuVars == << menu_pc, last_password, choice, entered, output, called, returned >>
fixedVars == << genVars, program, QR_AVAILABLE, CLIP_AVAILABLE >>

\* (variant: the except branch forgets the last password)
generate_outcome_forget(r, last) ==
    IF r.error # NoError
    THEN [last_password |-> None, output |-> "Error: " \o r.error, ok |-> FALSE]
    ELSE [last_password |-> r.value, output |-> "Generated Password:", ok |-> TRUE]

\* the outcome of the try / except around generate_password in choice "1"
generate_outcome(r, last) ==
    IF r.error # NoError
    THEN [last_password |-> last, output |-> "Error: " \o r.error, ok |-> FALSE]
    ELSE [last_password |-> r.value, output |-> "Generated Password:", ok |-> TRUE]

\* choice "1": the length, the mode, the call
MenuGenerate(c, l) ==
    /\ program = "menu" /\ menu_pc = "loop"
    /\ strip(c) = << "1" >>
    /\ choice' = strip(c)
    /\ entered' = [choice |-> c, length |-> l]
    /\ called' = NoCall
    /\ LET n == int(strip(l))
       IN  IF ~ n.ok
           THEN /\ output' = "Please enter a valid integer."
                /\ UNCHANGED << last_password, returned >>
           ELSE \E m \in ModeInputs, raw \in Streams :
                    LET md == IF strip(m) = << >> THEN STRONG ELSE strip(m)
                        r == generate_password(n.value, md, raw)
                        o == generate_outcome(r, last_password)
                    IN  /\ last_password' = o.last_password
                        /\ output' = o.output
                        /\ returned' = IF o.ok THEN r.value ELSE returned
    /\ UNCHANGED << menu_pc, guiVars, fixedVars >>

\* choice "2": generate_password(16, "strong"), outside any try
MenuQuick(c) ==
    /\ program = "menu" /\ menu_pc = "loop"
    /\ strip(c) = << "2" >>
    /\ choice' = strip(c)
    /\ entered' = [choice |-> c, length |-> None]
    /\ called' = NoCall
    /\ \E raw \in Streams :
       LET r == generate_password(QuickLength, STRONG, raw)
       IN  IF r.error # NoError
           THEN /\ menu_pc' = "crashed"
                /\ output' = r.error
                /\ UNCHANGED << last_password, returned >>
           ELSE /\ menu_pc' = "loop"
                /\ last_password' = r.value
                /\ returned' = r.value
                /\ output' = "Example Strong Password (16 chars):"
    /\ UNCHANGED << guiVars, fixedVars >>

\* choice "3": create_qr_and_save(last_password, filepath=filename);
\* saved tells whether the encoder returned or raised
MenuSaveQR(c) ==
    /\ program = "menu" /\ menu_pc = "loop"
    /\ strip(c) = << "3" >>
    /\ choice' = strip(c)
    /\ entered' = [choice |-> c, length |-> None]
    /\ IF ~ QR_AVAILABLE
       THEN /\ output' = "QR saving is unavailable. Install qrcode module."
            /\ called' = NoCall
       ELSE IF falsy(last_password)
       THEN /\ output' = "Generate a password first (option 1 or 2)."
            /\ called' = NoCall
       ELSE \E f \in FileInputs, saved \in BOOLEAN :
            /\ called' = [op |-> "create_qr_and_save", text |-> last_password,
                          filepath |-> IF strip(f) = << >> THEN DefaultQrFile
                                       ELSE strip(f)]
            /\ output' = IF saved THEN "QR code saved" ELSE "QR creation error:"
    /\ UNCHANGED << menu_pc, last_password, returned, guiVars, fixedVars >>

\* choice "4": pyperclip.copy(last_password)
MenuCopy(c) ==
    /\ program = "menu" /\ menu_pc = "loop"
    /\ strip(c) = << "4" >>
    /\ choice' = strip(c)
    /\ entered' = [choice |-> c, length |-> None]
    /\ IF ~ CLIP_AVAILABLE
       THEN /\ output' = "Clipboard copy unavailable. Install pyperclip."
            /\ called' = NoCall
       ELSE IF falsy(last_password)
       THEN /\ output' = "Generate a password first."
            /\ called' = NoCall
       ELSE \E copied \in BOOLEAN :
            /\ called' = [op |-> "pyperclip.copy", text |-> last_password,
                          filepath |-> None]
            /\ output' = IF copied THEN "Password copied to clipboard."
                         ELSE "Clipboard error:"
    /\ UNCHANGED << menu_pc, last_password, returned, guiVars, fixedVars >>

\* choice "5": break
MenuExit(c) ==
    /\ program = "menu" /\ menu_pc = "loop"
    /\ strip(c) = << "5" >>
    /\ choice' = strip(c)
    /\ entered' = [choice |-> c, length |-> None]
    /\ called' = NoCall
    /\ output' = "Exiting. Stay safe!"
    /\ menu_pc' = "exited"
    /\ UNCHANGED << last_password, returned, guiVars, fixedVars >>

\* the final else
MenuInvalid(c) ==
    /\ program = "menu" /\ menu_pc = "loop"
    /\ strip(c) \notin { << "1" >>, << "2" >>, << "3" >>, << "4" >>, << "5" >> }
    /\ choice' = strip(c)
    /\ entered' = [choice |-> c, length |-> None]
    /\ called' = NoCall
    /\ output' = "Invalid choice. Please try again."
    /\ UNCHANGED << menu_pc, last_password, returned, guiVars, fixedVars >>

\* the user types into the length field
GuiEditLength(l) ==
    /\ program = "gui"
    /\ entry_length' = l
    /\ gui_event' = "edit_length"
    /\ UNCHANGED << var_mode, entry_result, status_label, menuVars, fixedVars >>

\* the user picks a mode in the OptionMenu
GuiSelectMode(m) ==
    /\ program = "gui"
    /\ var_mode' = m
    /\ gui_event' = "select_mode"
    /\ UNCHANGED << entry_length, entry_result, status_label, menuVars, fixedVars >>

\* on_generate_click: ok is FALSE where the try block raised ValueError
generate_click(l, m, raw) ==
    LET n == int(l)
    IN  IF ~ n.ok THEN [ok |-> FALSE, password |-> None]
        ELSE LET r == generate_password(n.value, m, raw)
             IN  [ok |-> r.error = NoError, password |-> r.value]

OnGenerateClick(raw) ==
    /\ program = "gui"
    /\ gui_event' = "on_generate_click"
    /\ LET g == generate_click(entry_length, var_mode, raw)
       IN  IF g.ok
           THEN /\ entry_result' = g.password
                /\ UNCHANGED status_label
           ELSE /\ status_label' = "Please enter a valid number."
                /\ UNCHANGED entry_result
    /\ UNCHANGED << entry_length, var_mode, menuVars, fixedVars >>

NextFront ==
    \/ \E c \in ChoiceInputs, l \in LengthInputs : MenuGenerate(c, l)
    \/ \E c \in ChoiceInputs : MenuQuick(c)
    \/ \E c \in ChoiceInputs : MenuSaveQR(c)
    \/ \E c \in ChoiceInputs : MenuCopy(c)
    \/ \E c \in ChoiceInputs : MenuExit(c)
    \/ \E c \in ChoiceInputs : MenuInvalid(c)
    \/ \E l \in GuiLengthInputs : GuiEditLength(l)
    \/ \E m \in GuiModes : GuiSelectMode(m)
    \/ \E raw \in Streams : OnGenerateClick(raw)

SpecFront == InitFront /\ [][NextFront]_vars

(***************************************************************************)
(* Properties of generate_password, checked under Spec.                    *)
(***************************************************************************)
\* the statement-by-statement call and the function generate_password agree
\* on the draws the call made
CallAgrees ==
    /\ pc = "done" =>
           generate_password(length, mode, draws) = Returned(result)
    /\ pc = "raised" =>
           generate_password(length, mode, draws) = Raised(error)

\* the modes of Modes by what they resolve to, written out
LetterModes == { LETTERS, << "L", "e", "T", "T", "e", "r", "s" >> }
DigitModes == { DIGITS, << "D", "I", "G", "I", "T", "S" >> }
StrongModes == Modes \ (LetterModes \cup DigitModes)

\* the classes a mode activates
ActiveClasses(m) ==
    IF m \in LetterModes THEN { Letters }
    ELSE IF m \in DigitModes THEN { Digits }
    ELSE { Letters, Digits, Symbols }

Occurs(class, str) == \E k \in 1..Len(str) : str[k] \in class
Count(class, str) == Cardinality({ k \in 1..Len(str) : str[k] \in class })

Called == pc # "idle"

\* C1: for every length >= 1 and every mode the call does not raise, and the
\* str it returns has exactly length characters, also for lengths 1 and 2
\* where the required list is truncated.
C1_LengthInvariant ==
    /\ (Called /\ length >= 1) => (pc # "raised" /\ error = NoError)
    /\ pc = "done" => (result # None /\ Len(result) = length)
    /\ pc = "shuffle" => Len(password_parts) = length

C1_Witness ==
    /\ pc = "done"
    /\ length = 2
    /\ Len(chars) = 3
    /\ Len(result) = 2

\* C2: for every length <= 0 and every mode the call raises ValueError with
\* the InvalidLength message and returns nothing; the mode is not resolved,
\* no pool is built and no draw is made.
C2_RejectionInvariant ==
    (Called /\ length <= 0) =>
        /\ pc = "raised"
        /\ error = InvalidLength
        /\ result = None
        /\ draws = << >>
        /\ mode_lower = << >> /\ use = NoFlags /\ pool = << >>
        /\ password_parts = << >>

C2_Witness ==
    /\ pc = "raised"
    /\ length = 0
    /\ mode = LETTERS
    /\ error = InvalidLength

\* C3: for every mode and every length that is at least the number of
\* classes the mode activates, the returned password holds a character of
\* each activated class, whatever the draws and the shuffle.
C3_CoverageInvariant ==
    (pc = "done" /\ length >= Cardinality(ActiveClasses(mode))) =>
        \A class \in ActiveClasses(mode) : Occurs(class, result)

C3_Witness ==
    /\ pc = "done"
    /\ length = 3
    /\ mode = MIXED
    /\ result # required
    /\ Occurs(Letters, result) /\ Occurs(Digits, result) /\ Occurs(Symbols, result)

\* the pool a mode is to draw from
ExpectedPool(m) == UNION ActiveClasses(m)

\* C4: every character of the returned password, required or filler,
\* belongs to the pool of the mode: Letters for "letters", Digits for
\* "digits", the 94 characters of Letters, Digits and Symbols otherwise.
C4_RestrictionInvariant ==
    /\ Cardinality(Letters \cup Digits \cup Symbols) = 94
    /\ pc \in { "fill", "shuffle", "done" } =>
           /\ Range(pool) = ExpectedPool(mode)
           /\ Range(password_parts) \subseteq ExpectedPool(mode)
    /\ pc = "done" => Range(result) \subseteq ExpectedPool(mode)

C4_Witness ==
    /\ pc = "done"
    /\ mode \in DigitModes
    /\ length = 4
    /\ Range(result) \subseteq Digits
    /\ Cardinality(Range(result)) > 1

\* the mode a mode string stands for
Canonical(m) ==
    IF m \in LetterModes THEN LETTERS
    ELSE IF m \in DigitModes THEN DIGITS
    ELSE STRONG

\* C5: mode resolution never raises and ignores case: a spelling of
\* "letters" activates Letters alone, a spelling of "digits" Digits alone,
\* every other str all three classes; with the same draws the call returns
\* what it returns for the mode written in lower case, and for an
\* unrecognized mode what it returns for "strong".
C5_FallbackInvariant ==
    /\ pc \in { "pool", "req_letters", "req_digits", "req_symbols",
                "truncate", "fill", "shuffle", "done" } =>
           /\ use.letters = (Letters \in ActiveClasses(mode))
           /\ use.digits = (Digits \in ActiveClasses(mode))
           /\ use.symbols = (Symbols \in ActiveClasses(mode))
    /\ pc = "done" =>
           generate_password(length, Canonical(mode), draws) = Returned(result)
    /\ pc = "raised" => error = InvalidLength

C5_Witness ==
    /\ pc = "done"
    /\ mode = << "b", "a", "n", "a", "n", "a" >>
    /\ length = 4
    /\ use = [letters |-> TRUE, digits |-> TRUE, symbols |-> TRUE]

\* the results of shuffling x, over every outcome of the shuffle's draws
ShuffleDraws(n) ==
    { raw \in [1..(n - 1) -> 0..(n - 1)] : \A t \in 1..(n - 1) : raw[t] <= n - t }

ShuffleResults(x) ==
    { shuffle(x, shuffle_start(x), raw, 1) : raw \in ShuffleDraws(Len(x)) }

AllThree == [letters |-> TRUE, digits |-> TRUE, symbols |-> TRUE]

\* C6: for a mode that activates the three classes and a length k < 3 the
\* required list is cut to its first k entries and no filler is drawn:
\* length 1 returns the one Letters character drawn; length 2 returns one
\* Letters and one Digits character and no Symbols character, and both
\* orders are results of the shuffle.
C6_TruncationPolicy ==
    (use = AllThree /\ length < 3) =>
        /\ pc \in { "fill", "shuffle", "done" } =>
               /\ required = SubSeq(chars, 1, length)
               /\ remaining = 0
               /\ Range(password_parts) = Range(required)
        /\ (pc = "done" /\ length = 1) =>
               /\ result = << chars[1] >>
               /\ result[1] \in Letters
               /\ Len(draws) = 3
        /\ (pc = "done" /\ length = 2) =>
               /\ Count(Letters, result) = 1
               /\ Count(Digits, result) = 1
               /\ Count(Symbols, result) = 0
               /\ Len(draws) = 4
        /\ (pc = "shuffle" /\ length = 2 /\ i = 1) =>
               ShuffleResults(password_parts) =
                   { << chars[1], chars[2] >>, << chars[2], chars[1] >> }

C6_Witness ==
    /\ pc = "done"
    /\ mode = STRONG
    /\ length = 2
    /\ result[1] \in Digits
    /\ result[2] \in Letters

\* C7: for every mode the pool is not empty, so the empty-pool guard never
\* raises: the only error of a call is InvalidLength.
C7_PoolNonEmpty ==
    /\ pc \in { "req_letters", "req_digits", "req_symbols", "truncate",
                "fill", "shuffle", "done" } => pool # << >>
    /\ error \in { NoError, InvalidLength }
    /\ pc = "raised" => length <= 0

C7_Witness ==
    /\ pc = "req_letters"
    /\ mode = << >>
    /\ Len(pool) = 94

\* the working sequence: required, then the filler in the order drawn
Working ==
    required \o [k \in 1..remaining |-> secrets_choice(pool, draws[Len(chars) + k])]

Occurrences(c, str) == Cardinality({ k \in 1..Len(str) : str[k] = c })

IsPermutationOf(a, b) ==
    /\ Len(a) = Len(b)
    /\ \A c \in Range(a) \cup Range(b) : Occurrences(c, a) = Occurrences(c, b)

Identity(n) == [k \in 1..n |-> k]

\* the arrangements of 1..n
Arrangements(n) == Permutations(1..n)

\* C9: the returned password is a permutation of the working sequence
\* (required, then the filler draws): no character is added or lost; the
\* shuffle runs from the last index down to index 1, and its results over
\* all draws are all the arrangements of the working sequence, so a
\* required character can end at any position and so can a filler one.
C9_ShuffleStep ==
    /\ (pc = "shuffle" /\ i = shuffle_start(password_parts)) =>
           /\ password_parts = Working
           /\ i = length - 1
           /\ ShuffleResults(Identity(length)) = Arrangements(length)
           /\ ShuffleResults(password_parts) =
                  { [k \in 1..length |-> password_parts[p[k]]] :
                        p \in Arrangements(length) }
    /\ pc = "shuffle" => (0 <= i /\ IsPermutationOf(password_parts, Working))
    /\ pc = "done" => (i = 0 /\ IsPermutationOf(result, Working))

C9_Witness ==
    /\ pc = "done"
    /\ length = 4
    /\ Len(required) = 3
    /\ Working[4] \notin Range(required)
    /\ result[1] = Working[4]
    /\ result[4] = required[1]

(***************************************************************************)
(* Properties of the front ends, checked under SpecFront.                  *)
(***************************************************************************)
\* the entries of ChoiceInputs and LengthInputs by kind, written out
UnknownChoices == { << "6" >>, << >> }
NonIntegerLengths == { << "a", "b", "c" >>, << >> }
NonPositiveLengths == { << "0" >>, << "-", "3" >> }
GuiInvalidLengths == { << "0" >>, << "x" >> }

\* the last pass of the menu loop was given an invalid input
InvalidEntry(e) ==
    \/ e.choice \in UnknownChoices
    \/ e.choice = << "1" >> /\ e.length \in NonIntegerLengths \cup NonPositiveLengths

MenuErrors ==
    { "Please enter a valid integer.", "Error: " \o InvalidLength,
      "Invalid choice. Please try again." }

\* C8: one invalid input (a length that is no integer, a length <= 0, an
\* unknown choice) never ends the session: the menu prints an error, stays
\* at its prompt and keeps last_password; the form's generate handler shows
\* an error and keeps the result field; the menu ends only on choice 5.
C8_FrontEndResilience ==
    [][ /\ program = "menu" =>
            /\ menu_pc' # "crashed"
            /\ menu_pc' = "exited" => choice' = << "5" >>
            /\ InvalidEntry(entered') =>
                   /\ menu_pc' = "loop"
                   /\ output' \in MenuErrors
                   /\ last_password' = last_password
                   /\ called' = NoCall
        /\ (program = "gui" /\ gui_event' = "on_generate_click"
                /\ entry_length \in GuiInvalidLengths) =>
            /\ status_label' = "Please enter a valid number."
            /\ entry_result' = entry_result
            /\ entry_length' = entry_length
      ]_vars

C8_Witness ==
    /\ program = "menu"
    /\ menu_pc = "loop"
    /\ entered = [choice |-> << "1" >>, length |-> << "0" >>]
    /\ output = "Error: " \o InvalidLength
    /\ last_password # None

\* C10: last_password is None as long as no generation has succeeded, and
\* afterwards the value of the most recent generate_password call that
\* returned; the encoder and the clipboard writer are called only with
\* their flag true and last_password set, and with that password; choices
\* 3, 4 and invalid choices leave last_password as it is.
C10_MenuPasswordState ==
    /\ [](program = "menu" =>
            /\ last_password = returned
            /\ last_password # << >>
            /\ called.op = "create_qr_and_save" =>
                   (QR_AVAILABLE /\ called.text # None /\ called.text = last_password)
            /\ called.op = "pyperclip.copy" =>
                   (CLIP_AVAILABLE /\ called.text # None /\ called.text = last_password))
    /\ [][ (program = "menu" /\ choice' \notin { << "1" >>, << "2" >> }) =>
               last_password' = last_password ]_vars

C10_Witness ==
    /\ program = "menu"
    /\ choice = << "3" >>
    /\ called.op = "create_qr_and_save"
    /\ Len(called.text) = QuickLength
    /\ called.text = last_password

=============================================================================
